---- MODULE Spec2Model ----
(***************************************************************************)
(* Model of natural-sort-rs (src/src/lib.rs): the ASCII digit-run          *)
(* comparator cmp_ascii / cmp_digits, the ordering newtype Natural, and    *)
(* the NaturalSort extension of slices.                                    *)
(*                                                                         *)
(* A byte span (&[u8]) is a sequence of naturals in 0..255.  An Ordering   *)
(* is one of the strings "Less", "Equal", "Greater".                       *)
(***************************************************************************)
EXTENDS Integers, Sequences, FiniteSets, TLC

VARIABLES
    a0, b0,     \* the two views handed to Natural::cmp / Natural::eq
    a, b,       \* cmp_ascii's `mut a`, `mut b`: the remaining spans
    pc,         \* position of the comparison: "loop", "done", "eq"
    ord,        \* the Ordering cmp_ascii returned ("None" while it runs)
    iters,      \* iterations of cmp_ascii's while-let loop so far
    eqres,      \* what Natural::eq returned (read only once pc = "eq")
    c0,         \* a third view, for a caller comparing three values pairwise
    tri,        \* the three orderings such a caller obtained
    v_in,       \* the slice as it was when the last sort operation was called
    v,          \* the slice (&mut [T]) the sort operations reorder in place
    op,         \* the last sort operation called ("none" before the first)
    keyfn,      \* the key-extraction closure f handed to that operation
    calls,      \* invocations of f during that operation
    ncmp        \* comparisons (is_less calls) the operation's sort performed

cmpvars == <<a0, b0, a, b, pc, ord, iters, eqres>>
trivars == <<c0, tri>>
sortvars == <<v_in, v, op, keyfn, calls, ncmp>>

vars == <<a0, b0, a, b, pc, ord, iters, eqres, c0, tri, v_in, v, op, keyfn, calls, ncmp>>

(***************************************************************************)
(* Bounds of the model.                                                    *)
(***************************************************************************)
MaxLen == 3

\* '/' (below '0'), '0', '1', '9', and a byte above the ASCII range.
Bytes == {47, 48, 49, 57, 200}

RECURSIVE SpansOfLen(_)
SpansOfLen(n) ==
    IF n = 0 THEN {<<>>}
    ELSE {<<c>> \o s : c \in Bytes, s \in SpansOfLen(n - 1)}

Spans == UNION {SpansOfLen(n) : n \in 0..MaxLen}

\* the spans compared three at a time
MaxTripleLen == 2

TripleSpans == UNION {SpansOfLen(n) : n \in 0..MaxTripleLen}

(***************************************************************************)
(* core::cmp::Ordering and the std comparisons the code calls.             *)
(***************************************************************************)
Less == "Less"
Equal == "Equal"
Greater == "Greater"

\* usize::cmp / u8::cmp
cmp_int(m, n) == IF m < n THEN Less ELSE IF m > n THEN Greater ELSE Equal

\* <[u8] as Ord>::cmp: lexicographic, a proper prefix is Less
RECURSIVE cmp_slice(_, _)
cmp_slice(x, y) ==
    IF x = <<>> \/ y = <<>> THEN cmp_int(Len(x), Len(y))
    ELSE IF Head(x) # Head(y) THEN cmp_int(Head(x), Head(y))
    ELSE cmp_slice(Tail(x), Tail(y))

\* u8::is_ascii_digit
is_ascii_digit(c) == c \in 48..57

(***************************************************************************)
(* cmp_digits and its two local functions.                                 *)
(***************************************************************************)
\* Mutant: the leading zeros are kept.
trim_zeros_kept(slice) == slice

\* while let [b'0', rest @ ..] = *slice { *slice = rest }
RECURSIVE trim_zeros(_)
trim_zeros(slice) ==
    IF slice # <<>> /\ Head(slice) = 48 THEN trim_zeros(Tail(slice)) ELSE slice

\* the counter i of read_digits: the digits at the front of the trimmed slice
RECURSIVE count_digits(_)
count_digits(slice) ==
    IF slice # <<>> /\ Head(slice) \in 48..57
    THEN 1 + count_digits(Tail(slice))
    ELSE 0

\* Mutant: the run is returned but *slice is not advanced past it.
read_digits_not_advanced(slice) ==
    LET trimmed == trim_zeros(slice)
        i == count_digits(trimmed)
    IN  [run |-> SubSeq(trimmed, 1, i), rest |-> trimmed]

\* read_digits: trims, then walks the digits; returns the run
\* from_raw_parts(slice_start, i) and leaves *slice at the rest.
read_digits(slice) ==
    LET trimmed == trim_zeros(slice)
        i == count_digits(trimmed)
    IN  [run  |-> SubSeq(trimmed, 1, i),
         rest |-> SubSeq(trimmed, i + 1, Len(trimmed))]

\* Mutant: only the first run is trimmed of its zeros.
cmp_digits_second_untrimmed(x, y) ==
    LET ra == read_digits(x)
        ib == count_digits(y)
        rb == [run |-> SubSeq(y, 1, ib), rest |-> SubSeq(y, ib + 1, Len(y))]
        lenord == cmp_int(Len(ra.run), Len(rb.run))
    IN  [ord |-> IF lenord = Equal THEN cmp_slice(ra.run, rb.run) ELSE lenord,
         a   |-> ra.rest,
         b   |-> rb.rest]

\* Mutant: runs of equal trimmed length are taken for equal.
cmp_digits_length_only(x, y) ==
    LET ra == read_digits(x)
        rb == read_digits(y)
    IN  [ord |-> cmp_int(Len(ra.run), Len(rb.run)),
         a   |-> ra.rest,
         b   |-> rb.rest]

\* cmp_digits(&mut a, &mut b): the ordering and the two advanced spans
cmp_digits(x, y) ==
    LET ra == read_digits(x)
        rb == read_digits(y)
        lenord == cmp_int(Len(ra.run), Len(rb.run))
    IN  [ord |-> IF lenord = Equal THEN cmp_slice(ra.run, rb.run) ELSE lenord,
         a   |-> ra.rest,
         b   |-> rb.rest]

(***************************************************************************)
(* cmp_ascii.                                                              *)
(***************************************************************************)
\* Mutant: the remaining-length rule asks only `a.len() <= b.len()`.
len_cmp_never_equal(x, y) == IF Len(x) <= Len(y) THEN Less ELSE Greater

\* after the loop: usize::cmp(&a.len(), &b.len())
len_cmp(x, y) == cmp_int(Len(x), Len(y))

\* Mutant: the single-byte branch compares b_c with a_c.
LoopBody_bytes_swapped(x, y) ==
    IF is_ascii_digit(Head(x)) /\ is_ascii_digit(Head(y))
    THEN cmp_digits(x, y)
    ELSE [ord |-> cmp_int(Head(y), Head(x)), a |-> Tail(x), b |-> Tail(y)]

\* One iteration of the while-let loop, both spans non-empty.
LoopBody(x, y) ==
    IF is_ascii_digit(Head(x)) /\ is_ascii_digit(Head(y))
    THEN cmp_digits(x, y)
    ELSE [ord |-> cmp_int(Head(x), Head(y)), a |-> Tail(x), b |-> Tail(y)]

RECURSIVE cmp_ascii(_, _)
cmp_ascii(x, y) ==
    IF x # <<>> /\ y # <<>>
    THEN LET r == LoopBody(x, y)
         IN  IF r.ord # Equal THEN r.ord ELSE cmp_ascii(r.a, r.b)
    ELSE len_cmp(x, y)

\* natural_cmp -> NaturalSortable::natural_cmp -> cmp_ascii on the bytes
natural_cmp(x, y) == cmp_ascii(x, y)

\* sealed::NaturalSortable::eq for str and [u8]: `self == other`
sealed_eq(x, y) == x = y

(***************************************************************************)
(* Natural(a0).cmp(&Natural(b0)) run step by step, then Natural::eq.       *)
(***************************************************************************)
NoTriple == c0 = <<>> /\ tri = [ab |-> "None", bc |-> "None", ac |-> "None"]

NoSort ==
    /\ v_in = <<>> /\ v = <<>> /\ op = "none" /\ keyfn = "none"
    /\ calls = 0 /\ ncmp = 0

Init ==
    /\ a0 \in Spans
    /\ b0 \in Spans
    /\ a = a0
    /\ b = b0
    /\ pc = "loop"
    /\ ord = "None"
    /\ iters = 0
    /\ eqres = FALSE
    /\ NoTriple
    /\ NoSort

\* an iteration taking the digit branch
DigitStep ==
    /\ pc = "loop"
    /\ a # <<>> /\ b # <<>>
    /\ is_ascii_digit(Head(a)) /\ is_ascii_digit(Head(b))
    /\ LET r == LoopBody(a, b)
       IN  /\ a' = r.a
           /\ b' = r.b
           /\ IF r.ord # Equal
              THEN pc' = "done" /\ ord' = r.ord
              ELSE pc' = "loop" /\ ord' = ord
    /\ iters' = iters + 1
    /\ UNCHANGED <<a0, b0, eqres, trivars, sortvars>>

\* an iteration taking the single-byte branch
ByteStep ==
    /\ pc = "loop"
    /\ a # <<>> /\ b # <<>>
    /\ ~(is_ascii_digit(Head(a)) /\ is_ascii_digit(Head(b)))
    /\ LET r == LoopBody(a, b)
       IN  /\ a' = r.a
           /\ b' = r.b
           /\ IF r.ord # Equal
              THEN pc' = "done" /\ ord' = r.ord
              ELSE pc' = "loop" /\ ord' = ord
    /\ iters' = iters + 1
    /\ UNCHANGED <<a0, b0, eqres, trivars, sortvars>>

\* the loop's pattern no longer matches: the remaining lengths decide
LoopExit ==
    /\ pc = "loop"
    /\ (a = <<>> \/ b = <<>>)
    /\ ord' = len_cmp(a, b)
    /\ pc' = "done"
    /\ UNCHANGED <<a0, b0, a, b, iters, eqres, trivars, sortvars>>

\* Natural(a0) == Natural(b0)
NaturalEq ==
    /\ pc = "done"
    /\ eqres' = sealed_eq(a0, b0)
    /\ pc' = "eq"
    /\ UNCHANGED <<a0, b0, a, b, ord, iters, trivars, sortvars>>

Next == DigitStep \/ ByteStep \/ LoopExit \/ NaturalEq

Spec == Init /\ [][Next]_vars

(***************************************************************************)
(* A caller that relies on the comparator's order contract (a generic      *)
(* sorting routine): it compares three values pairwise through Natural's   *)
(* Ord.                                                                    *)
(***************************************************************************)
InitTriple ==
    /\ a0 \in TripleSpans
    /\ b0 \in TripleSpans
    /\ c0 \in TripleSpans
    /\ tri = [ab |-> "None", bc |-> "None", ac |-> "None"]
    /\ a = <<>> /\ b = <<>>
    /\ pc = "triple"
    /\ ord = "None"
    /\ iters = 0
    /\ eqres = FALSE
    /\ NoSort

CompareTriple ==
    /\ pc = "triple"
    /\ tri' = [ab |-> natural_cmp(a0, b0),
               bc |-> natural_cmp(b0, c0),
               ac |-> natural_cmp(a0, c0)]
    /\ pc' = "compared"
    /\ UNCHANGED <<a0, b0, c0, a, b, ord, iters, eqres, sortvars>>

NextTriple == CompareTriple

SpecTriple == InitTriple /\ [][NextTriple]_vars

(***************************************************************************)
(* impl NaturalSort<T> for [T].  The elements are byte strings; a direct   *)
(* variant compares the elements' own views (T: AsRef<Ref>), a keyed       *)
(* variant the views of Natural::new(f(x)).                                *)
(*                                                                         *)
(* The five methods forward to the slice sorts of core/alloc.  Those are   *)
(* modelled by the algorithms they run on slices this short: insertion     *)
(* sort (insertion_sort_shift_left) for the stable sorts and, for the      *)
(* unstable sorts, insertion sort or heapsort (builds with                 *)
(* optimize_for_size and 16-bit targets).  A sort works on entries         *)
(* [k |-> key bytes, i |-> position in the input].                         *)
(***************************************************************************)
\* the closures f the callers pass: |x| x.to_owned() and |x| x[1..].to_owned()
KeyFns == {"to_owned", "skip_first"}

\* the view compared for element x: x.as_ref() or f(x).as_ref()
Key(f, x) == IF f = "skip_first" THEN Tail(x) ELSE x

Entries(f, s) == [j \in 1..Len(s) |-> [k |-> Key(f, s[j]), i |-> j]]

\* the slice rearranged as the sorted entries say
Permuted(s, es) == [j \in 1..Len(s) |-> s[es[j].i]]

\* Mutant: the sorts are handed the views' own Ord (plain byte order).
is_less_plain_cmp(tuple, p, q) ==
    LET c == cmp_slice(p.k, q.k)
    IN  c = Less \/ (tuple /\ c = Equal /\ p.i < q.i)

\* is_less of the sorts: |a, b| natural_cmp(a, b) == Less, resp.
\* |a, b| Natural::new(f(a)).lt(&Natural::new(f(b))); with tuple = TRUE the
\* (key, index) pairs of sort_by_cached_key, compared lexicographically.
is_less(tuple, p, q) ==
    LET c == natural_cmp(p.k, q.k)
    IN  c = Less \/ (tuple /\ c = Equal /\ p.i < q.i)

Swap(s, m, n) == [s EXCEPT ![m] = s[n], ![n] = s[m]]

\* insert_tail: e moves left past every entry it is less than
RECURSIVE insert_tail(_, _, _)
insert_tail(tuple, s, e) ==
    IF s = <<>> THEN [v |-> <<e>>, n |-> 0]
    ELSE IF is_less(tuple, e, s[Len(s)])
         THEN LET r == insert_tail(tuple, SubSeq(s, 1, Len(s) - 1), e)
              IN  [v |-> Append(r.v, s[Len(s)]), n |-> r.n + 1]
         ELSE [v |-> Append(s, e), n |-> 1]

\* insertion_sort_shift_left(v, 1, is_less)
RECURSIVE insertion_sort(_, _)
insertion_sort(tuple, s) ==
    IF Len(s) < 2 THEN [v |-> s, n |-> 0]
    ELSE LET r == insertion_sort(tuple, SubSeq(s, 1, Len(s) - 1))
             t == insert_tail(tuple, r.v, s[Len(s)])
         IN  [v |-> t.v, n |-> r.n + t.n]

\* sift_down(&mut v[..len], node, is_less); node and child count from 0
RECURSIVE sift_down(_, _, _, _)
sift_down(tuple, s, len, node) ==
    LET left == 2 * node + 1
        both == left + 1 < len
        child == IF both /\ is_less(tuple, s[left + 1], s[left + 2])
                 THEN left + 1 ELSE left
        n1 == IF both THEN 1 ELSE 0
    IN  IF left >= len THEN [v |-> s, n |-> 0]
        ELSE IF ~is_less(tuple, s[node + 1], s[child + 1])
             THEN [v |-> s, n |-> n1 + 1]
             ELSE LET r == sift_down(tuple, Swap(s, node + 1, child + 1), len, child)
                  IN  [v |-> r.v, n |-> r.n + n1 + 1]

\* heapsort's loop `for i in (0..len + len / 2).rev()`, from i downwards
RECURSIVE heap_loop(_, _, _)
heap_loop(tuple, s, i) ==
    IF i < 0 THEN [v |-> s, n |-> 0]
    ELSE LET len == Len(s)
             s1 == IF i >= len THEN s ELSE Swap(s, 1, i + 1)
             sift_idx == IF i >= len THEN i - len ELSE 0
             r == sift_down(tuple, s1, IF i < len THEN i ELSE len, sift_idx)
             rest == heap_loop(tuple, r.v, i - 1)
         IN  [v |-> rest.v, n |-> r.n + rest.n]

heapsort(tuple, s) == heap_loop(tuple, s, Len(s) + (Len(s) \div 2) - 1)

\* Mutant: the stable sorts run the unstable algorithm.
stable_sort_by_heapsort(s) == {heapsort(FALSE, s)}

\* the results a stable sort (sort_by, sort_by_key) can produce
stable_sort(s) == {insertion_sort(FALSE, s)}

\* the results an unstable sort (sort_unstable_by, sort_unstable_by_key)
\* can produce, one per way core is built
unstable_sort(s) ==
    IF Len(s) < 2 THEN {[v |-> s, n |-> 0]}
    ELSE {insertion_sort(FALSE, s), heapsort(FALSE, s)}

\* Mutant: the keys are not cached, f runs for both sides of every comparison.
cached_sort_on_demand(s) ==
    IF Len(s) < 2 THEN {[v |-> s, n |-> 0, calls |-> 0]}
    ELSE {[v |-> r.v, n |-> r.n, calls |-> 2 * r.n] :
            r \in {insertion_sort(TRUE, s), heapsort(TRUE, s)}}

\* sort_by_cached_key: nothing for fewer than two elements; otherwise every
\* key is computed once into (key, index) pairs, and the pairs are sorted
cached_sort(s) ==
    IF Len(s) < 2 THEN {[v |-> s, n |-> 0, calls |-> 0]}
    ELSE {[v |-> r.v, n |-> r.n, calls |-> Len(s)] :
            r \in {insertion_sort(TRUE, s), heapsort(TRUE, s)}}

(***************************************************************************)
(* The slices sorted: every sequence of at most MaxSeq of the elements     *)
(* below, and the slice of tests::it_works.                                *)
(***************************************************************************)
MaxSeq == 3

\* "1", "01", "9", "10", "/1", "/01"
Elems == {<<49>>, <<48, 49>>, <<57>>, <<49, 48>>, <<47, 49>>, <<47, 48, 49>>}

RECURSIVE SeqsOfLen(_)
SeqsOfLen(n) ==
    IF n = 0 THEN {<<>>}
    ELSE {<<e>> \o s : e \in Elems, s \in SeqsOfLen(n - 1)}

\* "file", ".txt"
file == <<102, 105, 108, 101>>
txt == <<46, 116, 120, 116>>

\* ["file1.txt", "file1B.txt", "file00.txt", "file11.txt", "file0002.txt"]
TestFiles ==
    << file \o <<49>> \o txt,
       file \o <<49, 66>> \o txt,
       file \o <<48, 48>> \o txt,
       file \o <<49, 49>> \o txt,
       file \o <<48, 48, 48, 50>> \o txt >>

InitSort ==
    /\ v \in (UNION {SeqsOfLen(n) : n \in 0..MaxSeq}) \cup {TestFiles}
    /\ v_in = v
    /\ op = "none"
    /\ keyfn = "none"
    /\ calls = 0
    /\ ncmp = 0
    /\ a0 = <<>> /\ b0 = <<>> /\ a = <<>> /\ b = <<>>
    /\ pc = "sort"
    /\ ord = "None"
    /\ iters = 0
    /\ eqres = FALSE
    /\ NoTriple

\* self.sort_unstable_by(natural_cmp)
natural_sort_unstable ==
    /\ pc = "sort"
    /\ \E r \in unstable_sort(Entries("as_ref", v)) :
          /\ v' = Permuted(v, r.v)
          /\ ncmp' = r.n
    /\ v_in' = v
    /\ op' = "natural_sort_unstable"
    /\ keyfn' = "none"
    /\ calls' = 0
    /\ UNCHANGED <<cmpvars, trivars>>

\* self.sort_unstable_by_key(|x| Natural::new(f(x))): f runs for both sides
\* of every comparison
natural_sort_unstable_by_key ==
    /\ pc = "sort"
    /\ \E f \in KeyFns :
          /\ keyfn' = f
          /\ \E r \in unstable_sort(Entries(f, v)) :
                /\ v' = Permuted(v, r.v)
                /\ ncmp' = r.n
                /\ calls' = 2 * r.n
    /\ v_in' = v
    /\ op' = "natural_sort_unstable_by_key"
    /\ UNCHANGED <<cmpvars, trivars>>

\* self.sort_by(natural_cmp)
natural_sort ==
    /\ pc = "sort"
    /\ \E r \in stable_sort(Entries("as_ref", v)) :
          /\ v' = Permuted(v, r.v)
          /\ ncmp' = r.n
    /\ v_in' = v
    /\ op' = "natural_sort"
    /\ keyfn' = "none"
    /\ calls' = 0
    /\ UNCHANGED <<cmpvars, trivars>>

\* self.sort_by_key(|x| Natural::new(f(x)))
natural_sort_by_key ==
    /\ pc = "sort"
    /\ \E f \in KeyFns :
          /\ keyfn' = f
          /\ \E r \in stable_sort(Entries(f, v)) :
                /\ v' = Permuted(v, r.v)
                /\ ncmp' = r.n
                /\ calls' = 2 * r.n
    /\ v_in' = v
    /\ op' = "natural_sort_by_key"
    /\ UNCHANGED <<cmpvars, trivars>>

\* self.sort_by_cached_key(|x| Natural::new(f(x)))
natural_sort_by_cached_key ==
    /\ pc = "sort"
    /\ \E f \in KeyFns :
          /\ keyfn' = f
          /\ \E r \in cached_sort(Entries(f, v)) :
                /\ v' = Permuted(v, r.v)
                /\ ncmp' = r.n
                /\ calls' = r.calls
    /\ v_in' = v
    /\ op' = "natural_sort_by_cached_key"
    /\ UNCHANGED <<cmpvars, trivars>>

NextSort ==
    \/ natural_sort_unstable
    \/ natural_sort_unstable_by_key
    \/ natural_sort
    \/ natural_sort_by_key
    \/ natural_sort_by_cached_key

SpecSort == InitSort /\ [][NextSort]_vars

(***************************************************************************)
(* Reference notions the claims are stated with.  They are written         *)
(* directly from the claims' words, independently of the code above.       *)
(***************************************************************************)
IsDigit(c) == c >= 48 /\ c <= 57

Min(m, n) == IF m <= n THEN m ELSE n

Finished == pc \in {"done", "eq"}

\* length of the maximal run of ASCII digits at the front of s
RECURSIVE RunLen(_)
RunLen(s) == IF s # <<>> /\ IsDigit(Head(s)) THEN 1 + RunLen(Tail(s)) ELSE 0

\* s without its first n bytes
Drop(s, n) == SubSeq(s, n + 1, Len(s))

\* a digit run without its leading '0' bytes; an all-zero run becomes "0"
RECURSIVE StripRun(_)
StripRun(r) ==
    IF Len(r) > 1 /\ Head(r) = 48 THEN StripRun(Tail(r)) ELSE r

\* s with every maximal digit run replaced by its stripped form
RECURSIVE Normalize(_)
Normalize(s) ==
    IF s = <<>> THEN <<>>
    ELSE IF IsDigit(Head(s))
         THEN StripRun(SubSeq(s, 1, RunLen(s))) \o Normalize(Drop(s, RunLen(s)))
         ELSE <<Head(s)>> \o Normalize(Tail(s))

\* the number a string of ASCII digits denotes
RECURSIVE NumVal(_)
NumVal(s) ==
    IF s = <<>> THEN 0 ELSE 10 * NumVal(SubSeq(s, 1, Len(s) - 1)) + (s[Len(s)] - 48)

AllDigits(s) == s # <<>> /\ \A i \in 1..Len(s) : IsDigit(s[i])

NoDigits(s) == \A i \in 1..Len(s) : ~IsDigit(s[i])

\* plain byte-ordinal lexicographic order: the first differing byte decides,
\* a proper prefix is Less
LexOrd(x, y) ==
    LET diff == {i \in 1..Min(Len(x), Len(y)) : x[i] # y[i]}
    IN  IF diff = {}
        THEN (IF Len(x) < Len(y) THEN Less
              ELSE IF Len(x) > Len(y) THEN Greater ELSE Equal)
        ELSE LET i == CHOOSE k \in diff : \A j \in diff : k <= j
             IN  IF x[i] < y[i] THEN Less ELSE Greater

(***************************************************************************)
(* C1.  Natural(a) == Natural(b) holds exactly when Natural(a).cmp(b) is   *)
(* Equal, for every pair, pairs differing only in leading zeros included.  *)
(* The code's eq is byte equality, so this is violated ("09" and "9").     *)
(***************************************************************************)
C1_EqAgreesWithCmp == pc = "eq" => (eqres <=> ord = Equal)

(***************************************************************************)
(* C3.  natural_cmp returns exactly one of Less, Equal, Greater; it is     *)
(* Less iff the swapped call is Greater, Equal iff the swapped call is     *)
(* Equal; and natural_cmp(a, a) is Equal.                                  *)
(***************************************************************************)
C3_Trichotomy ==
    Finished =>
        /\ ord \in {Less, Equal, Greater}
        /\ ord = natural_cmp(a0, b0)
        /\ (ord = Less <=> natural_cmp(b0, a0) = Greater)
        /\ (ord = Equal <=> natural_cmp(b0, a0) = Equal)
        /\ (ord = Greater <=> natural_cmp(b0, a0) = Less)
        /\ natural_cmp(a0, a0) = Equal
        /\ natural_cmp(b0, b0) = Equal

\* "01/" against "9": Less one way, Greater the other
C3_Witness ==
    /\ pc = "done" /\ a0 = <<48, 49, 47>> /\ b0 = <<57>>
    /\ ord = Less /\ natural_cmp(b0, a0) = Greater

(***************************************************************************)
(* C4.  Two non-empty strings of ASCII digits compare as the numbers they  *)
(* denote, whatever their leading zeros and lengths.                       *)
(***************************************************************************)
C4_DigitMagnitude ==
    (Finished /\ AllDigits(a0) /\ AllDigits(b0)) =>
        ord = (IF NumVal(a0) < NumVal(b0) THEN Less
               ELSE IF NumVal(a0) > NumVal(b0) THEN Greater ELSE Equal)

\* "009" against "10": 9 < 10 although "009" is longer and "0" < "1"
C4_Witness ==
    /\ pc = "done" /\ a0 = <<48, 48, 57>> /\ b0 = <<49, 48>> /\ ord = Less

(***************************************************************************)
(* C5.  Two spans without any ASCII digit compare as in the plain          *)
(* byte-ordinal lexicographic order.                                       *)
(***************************************************************************)
C5_NonDigitLexical ==
    (Finished /\ NoDigits(a0) /\ NoDigits(b0)) => ord = LexOrd(a0, b0)

\* a proper prefix, decided by the remaining-length rule after two iterations
C5_Witness ==
    /\ pc = "done" /\ a0 = <<47, 200>> /\ b0 = <<47, 200, 47>>
    /\ iters = 2 /\ ord = Less

(***************************************************************************)
(* C9.  cmp_ascii terminates: every iteration of its loop removes at       *)
(* least one byte from each remaining span (exactly one each in the        *)
(* single-byte branch, the whole maximal digit run of each in the digit    *)
(* branch), the iterations never exceed the length of the shorter span,    *)
(* and a run that is not finished can always take a step.                  *)
(***************************************************************************)
C9_Progress ==
    [][ /\ iters' <= Min(Len(a0), Len(b0))
        /\ (pc = "loop" /\ iters' = iters + 1) =>
              /\ Len(a') < Len(a) /\ Len(b') < Len(b)
              /\ IF IsDigit(Head(a)) /\ IsDigit(Head(b))
                 THEN a' = Drop(a, RunLen(a)) /\ b' = Drop(b, RunLen(b))
                 ELSE a' = Drop(a, 1) /\ b' = Drop(b, 1)
        /\ (pc = "loop") => (pc' \in {"loop", "done"})
        /\ (pc' = "loop") => (ENABLED (DigitStep \/ ByteStep \/ LoopExit))'
      ]_vars

\* "01" + 0xC8 against "1" + 0xC8 + "/": a digit iteration, a byte iteration
C9_Witness ==
    /\ pc = "done" /\ a0 = <<48, 49, 200>> /\ b0 = <<49, 200, 47>>
    /\ iters = 2 /\ a = <<>> /\ b = <<47>> /\ ord = Less

(***************************************************************************)
(* C10.  cmp_ascii is Equal exactly when the two spans are byte-identical  *)
(* after every maximal digit run is stripped of its leading zeros (an      *)
(* all-zero run becoming "0").                                             *)
(***************************************************************************)
C10_EqualCharacterised ==
    Finished => (ord = Equal <=> Normalize(a0) = Normalize(b0))

\* "/09" and "/9" differ as bytes and compare Equal
C10_Witness ==
    /\ pc = "done" /\ a0 = <<47, 48, 57>> /\ b0 = <<47, 57>> /\ ord = Equal

\* "/0" and "/": a digit run is not equated with the absence of a run
C10_WitnessAbsent ==
    /\ pc = "done" /\ a0 = <<47, 48>> /\ b0 = <<47>> /\ ord = Greater

(***************************************************************************)
(* C2.  The comparator is transitive: if cmp(a, b) and cmp(b, c) are both  *)
(* not Greater then cmp(a, c) is not Greater, and it is Less when either   *)
(* of the two is Less.                                                     *)
(***************************************************************************)
C2_Transitive ==
    (pc = "compared" /\ tri.ab # Greater /\ tri.bc # Greater) =>
        /\ tri.ac # Greater
        /\ (tri.ab = Less \/ tri.bc = Less) => tri.ac = Less

\* "/" < "09" = "9" < 0xC8: a byte below '0', two paddings of one number,
\* a byte above '9'
C2_Witness ==
    /\ pc = "compared"
    /\ a0 = <<48, 57>> /\ b0 = <<57>> /\ c0 = <<200>>
    /\ tri = [ab |-> Equal, bc |-> Less, ac |-> Less]

(***************************************************************************)
(* Notions of the sort claims.                                             *)
(***************************************************************************)
Sorted == op # "none"

\* the view the last operation compared element x by
KeyUsed(x) == IF keyfn = "skip_first" THEN Tail(x) ELSE x

Count(s, e) == Cardinality({j \in 1..Len(s) : s[j] = e})

SameMultiset(s, t) ==
    /\ Len(s) = Len(t)
    /\ \A j \in 1..Len(s) : Count(s, s[j]) = Count(t, s[j])

\* no element compares Greater than a later one
NaturallySorted(s) ==
    \A i \in 1..Len(s) : \A j \in 1..Len(s) :
        i < j => natural_cmp(KeyUsed(s[i]), KeyUsed(s[j])) # Greater

DirectSorted(s) ==
    \A i \in 1..Len(s) : \A j \in 1..Len(s) :
        i < j => natural_cmp(s[i], s[j]) # Greater

\* ["file00.txt", "file1.txt", "file1B.txt", "file0002.txt", "file11.txt"]
TestFilesSorted ==
    << file \o <<48, 48>> \o txt,
       file \o <<49>> \o txt,
       file \o <<49, 66>> \o txt,
       file \o <<48, 48, 48, 50>> \o txt,
       file \o <<49, 49>> \o txt >>

(***************************************************************************)
(* C6.  After each of the five sort operations the slice has the length    *)
(* it had, is a permutation of the input, and no element (or its key)      *)
(* compares Greater than a later one; the slice of tests::it_works comes   *)
(* out in the order the test expects.                                      *)
(***************************************************************************)
C6_SortPostcondition ==
    Sorted =>
        /\ Len(v) = Len(v_in)
        /\ SameMultiset(v, v_in)
        /\ NaturallySorted(v)
        /\ (v_in = TestFiles /\ keyfn = "none") => v = TestFilesSorted

C6_Witness ==
    /\ op = "natural_sort" /\ v_in = TestFiles /\ v = TestFilesSorted

\* an unstable keyed sort that had to move elements
C6_WitnessKeyed ==
    /\ op = "natural_sort_unstable_by_key" /\ keyfn = "skip_first"
    /\ v_in = << <<47, 49>>, <<49, 48>>, <<57>> >>
    /\ v = << <<57>>, <<49, 48>>, <<47, 49>> >>

(***************************************************************************)
(* C7.  Sorting an already naturally sorted slice with natural_sort or     *)
(* natural_sort_unstable leaves every position holding the identical       *)
(* element, also when distinct elements compare Equal ("01" and "1").      *)
(* As stated it fails for natural_sort_unstable.                           *)
(***************************************************************************)
C7_IdempotentBoth ==
    (op \in {"natural_sort", "natural_sort_unstable"} /\ DirectSorted(v_in)) =>
        v = v_in

(***************************************************************************)
(* C7 as amended: natural_sort leaves an already sorted slice unchanged    *)
(* element-wise; natural_sort_unstable leaves at every position an element *)
(* that compares Equal to the one that was there, and the identical one    *)
(* when no two distinct elements of the slice compare Equal.               *)
(***************************************************************************)
C7_Idempotent ==
    (op \in {"natural_sort", "natural_sort_unstable"} /\ DirectSorted(v_in)) =>
        /\ Len(v) = Len(v_in)
        /\ op = "natural_sort" => v = v_in
        /\ \A j \in 1..Len(v) : natural_cmp(v[j], v_in[j]) = Equal
        /\ (\A i \in 1..Len(v_in) : \A j \in 1..Len(v_in) :
               natural_cmp(v_in[i], v_in[j]) = Equal => v_in[i] = v_in[j])
           => v = v_in

\* ["01", "1", "9"] is sorted, holds two distinct Equal elements, and the
\* stable sort leaves it as it is
C7_Witness ==
    /\ op = "natural_sort"
    /\ v_in = << <<48, 49>>, <<49>>, <<57>> >>
    /\ v = v_in
    /\ ncmp = 2

\* the unstable sort exchanging the two Equal elements
C7_WitnessUnstable ==
    /\ op = "natural_sort_unstable"
    /\ DirectSorted(v_in)
    /\ v # v_in

(***************************************************************************)
(* C8.  One call of natural_sort_by_cached_key on n elements invokes f     *)
(* exactly n times, for every n, 0 and 1 included.  As stated it fails     *)
(* for n = 1.                                                              *)
(***************************************************************************)
C8_ExactlyOncePerElement ==
    op = "natural_sort_by_cached_key" => calls = Len(v_in)

(***************************************************************************)
(* C8 as amended: f is invoked exactly once for each element when the      *)
(* slice has two or more elements, and not at all when it has fewer; so    *)
(* never more than once per element, whatever the number of comparisons.   *)
(***************************************************************************)
C8_KeyCalls ==
    op = "natural_sort_by_cached_key" =>
        /\ Len(v_in) >= 2 => calls = Len(v_in)
        /\ Len(v_in) < 2 => calls = 0
        /\ calls <= Len(v_in)

\* three elements, three comparisons, three calls of f
C8_Witness ==
    /\ op = "natural_sort_by_cached_key"
    /\ Len(v_in) = 3 /\ calls = 3 /\ ncmp = 3 /\ v # v_in

\* a single element: f is never called
C8_WitnessSingle ==
    /\ op = "natural_sort_by_cached_key" /\ Len(v_in) = 1 /\ calls = 0

====
